---------------------------- MODULE Spec2Model ----------------------------
(***************************************************************************)
(* Flood-aware road routing (phase4_routing): the flood prediction store,  *)
(* the risk tier functions, the road risk engine, the route risk scorer    *)
(* and the routing orchestrator, in the in-memory ("mock") database mode.  *)
(*                                                                         *)
(* Numbers.  Submergence ratios, risks and fractions are fixed-point       *)
(* integers in units of 10^-5 (0.7 is 70000), so that the 4-decimal        *)
(* rounding of the scorer is a real operation.  Weights are records        *)
(* [inf, v]: a finite value v, or +infinity (math.inf).  Time is in        *)
(* minutes.                                                                *)
(*                                                                         *)
(* Geometry.  Shapely's shape / intersects / intersection / length are     *)
(* modelled on a line: a geometry is a closed interval [lo, hi] of         *)
(* positions; two geometries intersect when the intervals share a point    *)
(* (touching counts, as in Shapely), and the length of the intersection    *)
(* is the length of the shared interval.                                   *)
(***************************************************************************)
EXTENDS Integers, Sequences, FiniteSets, TLC

VARIABLES
    now,                \* datetime.now(timezone.utc), in minutes
    flood_predictions,  \* MockConnection.flood_predictions
    road_risks,         \* MockConnection.road_risks
    call,               \* the operation last invoked and its arguments
    ret,                \* what that operation returned (or that it raised)
    thr                 \* the position and locals of each concurrent caller

vars == <<now, flood_predictions, road_risks, call, ret, thr>>

-----------------------------------------------------------------------------
(* Numbers *)

Scale == 10 ^ 5

Max2(a, b) == IF a >= b THEN a ELSE b

Min2(a, b) == IF a <= b THEN a ELSE b

\* n / d rounded to the nearest integer, ties to even (Python's round), n >= 0, d > 0
RoundDiv(n, d) ==
    LET q == n \div d
        r == n % d
    IN  IF 2 * r < d THEN q
        ELSE IF 2 * r > d THEN q + 1
        ELSE IF q % 2 = 0 THEN q ELSE q + 1

\* round(x, 4) of a value in units of 10^-5: the result is a multiple of 10
Round4(x) == 10 * RoundDiv(x, 10)

Fin(v) == [inf |-> FALSE, v |-> v]

Inf == [inf |-> TRUE, v |-> 0]

\* base_weight * MULTIPLIER for a positive finite multiplier
Times(w, m) == IF w.inf THEN Inf ELSE Fin(w.v * m)

WLeq(a, b) == b.inf \/ (~a.inf /\ a.v <= b.v)

-----------------------------------------------------------------------------
(* risk_levels.py *)

TIER_LOW == 20000
TIER_MODERATE == 40000
TIER_HIGH == 70000

MULTIPLIER_LOW == 1
MULTIPLIER_MODERATE == 2
MULTIPLIER_HIGH == 5
MULTIPLIER_CLOSED == Inf

RISK_LOW == "low"
RISK_MODERATE == "moderate"
RISK_HIGH == "high"
RISK_SEVERE == "severe"

\* a slip: the two middle multipliers exchanged
compute_weight_swapped(base_weight, submergence_ratio) ==
    IF submergence_ratio > TIER_HIGH THEN MULTIPLIER_CLOSED
    ELSE IF submergence_ratio > TIER_MODERATE
        THEN Times(base_weight, MULTIPLIER_MODERATE)
    ELSE IF submergence_ratio > TIER_LOW
        THEN Times(base_weight, MULTIPLIER_HIGH)
    ELSE Times(base_weight, MULTIPLIER_LOW)

compute_weight(base_weight, submergence_ratio) ==
    IF submergence_ratio > TIER_HIGH THEN MULTIPLIER_CLOSED
    ELSE IF submergence_ratio > TIER_MODERATE
        THEN Times(base_weight, MULTIPLIER_HIGH)
    ELSE IF submergence_ratio > TIER_LOW
        THEN Times(base_weight, MULTIPLIER_MODERATE)
    ELSE Times(base_weight, MULTIPLIER_LOW)

\* a slip: the severe boundary made inclusive
get_risk_level_inclusive(submergence_ratio) ==
    IF submergence_ratio >= TIER_HIGH THEN RISK_SEVERE
    ELSE IF submergence_ratio > TIER_MODERATE THEN RISK_HIGH
    ELSE IF submergence_ratio > TIER_LOW THEN RISK_MODERATE
    ELSE RISK_LOW

get_risk_level(submergence_ratio) ==
    IF submergence_ratio > TIER_HIGH THEN RISK_SEVERE
    ELSE IF submergence_ratio > TIER_MODERATE THEN RISK_HIGH
    ELSE IF submergence_ratio > TIER_LOW THEN RISK_MODERATE
    ELSE RISK_LOW

\* a slip: the closure boundary made inclusive
is_road_closed_inclusive(submergence_ratio) == submergence_ratio >= TIER_HIGH

is_road_closed(submergence_ratio) == submergence_ratio > TIER_HIGH

-----------------------------------------------------------------------------
(* Python values *)

\* dict.get(key, default)
Get(d, key, default) == IF key \in DOMAIN d THEN d[key] ELSE default

\* a timestamp string: ISO 8601 with an offset or Z ("aware"), ISO 8601
\* without one ("naive"), or text that datetime.fromisoformat rejects
Aware(t) == [kind |-> "aware", t |-> t]

Naive(t) == [kind |-> "naive", t |-> t]

Malformed == [kind |-> "malformed", t |-> 0]

\* a GeoJSON geometry on the line; shape() raises on a malformed one
Polygon(lo, hi) == [type |-> "Polygon", lo |-> lo, hi |-> hi]

LineStringGeom(lo, hi) == [type |-> "LineString", lo |-> lo, hi |-> hi]

MalformedGeom == [type |-> "Malformed", lo |-> 0, hi |-> 0]

\* None where a geometry is expected
NoneGeom == [type |-> "None", lo |-> 0, hi |-> 0]

shape_raises(geom) == geom.type = "Malformed"

\* Shapely: a.intersects(b)
intersects(a, b) == Max2(a.lo, b.lo) <= Min2(a.hi, b.hi)

\* Shapely: a.intersection(b).length
intersection_length(a, b) ==
    IF intersects(a, b) THEN Min2(a.hi, b.hi) - Max2(a.lo, b.lo) ELSE 0

-----------------------------------------------------------------------------
(* db/flood_store.py: flood predictions *)

\* has the feature the keys the loop body subscripts?
feature_ok(feature) ==
    /\ "geometry" \in DOMAIN feature
    /\ "properties" \in DOMAIN feature
    /\ "submergence_ratio" \in DOMAIN feature.properties

\* the dict one iteration of store_predictions appends
stored_record(feature, t) ==
    [geometry |-> feature.geometry,
     submergence_ratio |-> feature.properties.submergence_ratio,
     velocity |-> Get(feature.properties, "velocity", 0),
     timestamp |-> Get(feature.properties, "timestamp", Aware(t)),
     source |-> "lisflood"]

\* a slip: a feature whose record the list already holds is not appended again
RECURSIVE store_loop_dedup(_, _, _, _)
store_loop_dedup(list, features, i, t) ==
    IF i > Len(features) THEN [list |-> list, raised |-> FALSE]
    ELSE IF ~feature_ok(features[i]) THEN [list |-> list, raised |-> TRUE]
    ELSE IF \E j \in 1..Len(list) : list[j] = stored_record(features[i], t)
    THEN store_loop_dedup(list, features, i + 1, t)
    ELSE store_loop_dedup(Append(list, stored_record(features[i], t)), features, i + 1, t)

\* the loop of store_predictions from feature i on: the list it leaves and
\* whether it raised (KeyError) on the way
RECURSIVE store_loop(_, _, _, _)
store_loop(list, features, i, t) ==
    IF i > Len(features) THEN [list |-> list, raised |-> FALSE]
    ELSE IF ~feature_ok(features[i]) THEN [list |-> list, raised |-> TRUE]
    ELSE store_loop(Append(list, stored_record(features[i], t)), features, i + 1, t)

\* the two parsers: get_latest_predictions inlines what _parse_ts does
ts_raises(ts) == ts.kind = "naive"

parse_ts(ts, t) == IF ts.kind = "malformed" THEN t ELSE ts.t

\* a slip: the velocity of the record not copied into the feature
latest_feature_no_velocity(pred) ==
    [type |-> "Feature",
     geometry |-> pred.geometry,
     properties |-> [submergence_ratio |-> pred.submergence_ratio,
                     velocity |-> 0,
                     timestamp |-> pred.timestamp]]

\* the feature get_latest_predictions builds from a stored record
latest_feature(pred) ==
    [type |-> "Feature",
     geometry |-> pred.geometry,
     properties |-> [submergence_ratio |-> pred.submergence_ratio,
                     velocity |-> pred.velocity,
                     timestamp |-> pred.timestamp]]

\* the loop of get_latest_predictions from record i on
RECURSIVE latest_loop(_, _, _, _, _)
latest_loop(list, i, cutoff, t, features) ==
    IF i > Len(list) THEN [raised |-> FALSE, features |-> features]
    ELSE IF ts_raises(list[i].timestamp) THEN [raised |-> TRUE, features |-> features]
    ELSE latest_loop(list, i + 1, cutoff, t,
            IF parse_ts(list[i].timestamp, t) >= cutoff
            THEN Append(features, latest_feature(list[i]))
            ELSE features)

get_latest_predictions(list, t, minutes) ==
    latest_loop(list, 1, t - minutes, t, <<>>)

\* the list comprehension of clear_old_predictions
\* a slip: only the records stamped after the cutoff kept
RECURSIVE clear_loop_strict(_, _, _, _, _)
clear_loop_strict(list, i, cutoff, t, kept) ==
    IF i > Len(list) THEN [raised |-> FALSE, list |-> kept]
    ELSE IF ts_raises(list[i].timestamp) THEN [raised |-> TRUE, list |-> list]
    ELSE clear_loop_strict(list, i + 1, cutoff, t,
            IF parse_ts(list[i].timestamp, t) > cutoff
            THEN Append(kept, list[i])
            ELSE kept)

RECURSIVE clear_loop(_, _, _, _, _)
clear_loop(list, i, cutoff, t, kept) ==
    IF i > Len(list) THEN [raised |-> FALSE, list |-> kept]
    ELSE IF ts_raises(list[i].timestamp) THEN [raised |-> TRUE, list |-> list]
    ELSE clear_loop(list, i + 1, cutoff, t,
            IF parse_ts(list[i].timestamp, t) >= cutoff
            THEN Append(kept, list[i])
            ELSE kept)

\* store_predictions(geojson) on the list: the list it leaves, and the count
\* it returns unless it raised
store_predictions(list, geojson, t) ==
    LET features == Get(geojson, "features", <<>>)
        done == store_loop(list, features, 1, t)
    IN  IF features = <<>> THEN [raised |-> FALSE, list |-> list, value |-> 0]
        ELSE IF done.raised THEN [raised |-> TRUE, list |-> done.list]
        ELSE [raised |-> FALSE, list |-> done.list, value |-> Len(features)]

clear_old_predictions(list, t, hours) ==
    clear_loop(list, 1, t - 60 * hours, t, <<>>)

-----------------------------------------------------------------------------
(* db/flood_store.py: road risks *)

\* the index of the first record of the table with this id, 0 if none
find_risk(table, road_segment_id) ==
    LET hits == {i \in 1..Len(table) : table[i].road_segment_id = road_segment_id}
    IN  IF hits = {} THEN 0 ELSE CHOOSE i \in hits : \A j \in hits : i <= j

\* risk.update({...}) and the geometry assignment on the record found
updated_risk(risk, base_weight, dynamic_weight, max_submergence, is_closed, geometry, t) ==
    [risk EXCEPT !.base_weight = base_weight,
                 !.dynamic_weight = dynamic_weight,
                 !.max_submergence = max_submergence,
                 !.is_closed = is_closed,
                 !.updated_at = Aware(t),
                 !.geometry = IF geometry = NoneGeom THEN @ ELSE geometry]

\* the dict appended for an id the table does not hold
new_risk(road_segment_id, base_weight, dynamic_weight, max_submergence, is_closed, geometry, t) ==
    [road_segment_id |-> road_segment_id,
     geometry |-> geometry,
     base_weight |-> base_weight,
     dynamic_weight |-> dynamic_weight,
     max_submergence |-> max_submergence,
     is_closed |-> is_closed,
     updated_at |-> Aware(t)]

upsert_road_risk(table, road_segment_id, base_weight, dynamic_weight, max_submergence, is_closed, geometry, t) ==
    LET i == find_risk(table, road_segment_id)
    IN  IF i > 0
        THEN [table EXCEPT ![i] = updated_risk(table[i], base_weight, dynamic_weight,
                                               max_submergence, is_closed, geometry, t)]
        ELSE Append(table, new_risk(road_segment_id, base_weight, dynamic_weight,
                                    max_submergence, is_closed, geometry, t))

get_road_risks(table) == table

-----------------------------------------------------------------------------
(* routing/road_risk_updater.py *)

\* a slip: the ratios of the intersecting polygons accumulated, not compared
RECURSIVE intersect_loop_sum(_, _, _, _)
intersect_loop_sum(road_geometry, flood_polygons, i, max_submergence) ==
    IF i > Len(flood_polygons) THEN max_submergence
    ELSE intersect_loop_sum(road_geometry, flood_polygons, i + 1,
            IF intersects(road_geometry, flood_polygons[i].geometry)
            THEN max_submergence + flood_polygons[i].submergence_ratio
            ELSE max_submergence)

\* the loop of intersect_road_with_floods from polygon i on
RECURSIVE intersect_loop(_, _, _, _)
intersect_loop(road_geometry, flood_polygons, i, max_submergence) ==
    IF i > Len(flood_polygons) THEN max_submergence
    ELSE intersect_loop(road_geometry, flood_polygons, i + 1,
            IF intersects(road_geometry, flood_polygons[i].geometry)
            THEN Max2(max_submergence, flood_polygons[i].submergence_ratio)
            ELSE max_submergence)

intersect_road_with_floods(road_geometry, flood_polygons) ==
    intersect_loop(road_geometry, flood_polygons, 1, 0)

\* the conversion of the active features to Shapely: it raises on the first
\* geometry shape() rejects
flood_polygons_raise(flood_features) ==
    \E i \in 1..Len(flood_features) : shape_raises(flood_features[i].geometry)

to_flood_polygons(flood_features) ==
    [i \in 1..Len(flood_features) |->
        [geometry |-> flood_features[i].geometry,
         submergence_ratio |-> flood_features[i].properties.submergence_ratio]]

\* segment.get("geometry") is None
no_geometry(segment) == Get(segment, "geometry", NoneGeom) = NoneGeom

\* one iteration of the segment loop on a segment with geometry: the table
\* after its upsert
segment_upsert(table, segment, flood_polygons, t) ==
    LET base_weight == Get(segment, "base_weight", Fin(1))
        max_sub == intersect_road_with_floods(segment.geometry, flood_polygons)
    IN  upsert_road_risk(table, segment.road_segment_id, base_weight,
                         compute_weight(base_weight, max_sub), max_sub,
                         is_road_closed(max_sub), segment.geometry, t)

segment_closed(segment, flood_polygons) ==
    is_road_closed(intersect_road_with_floods(segment.geometry, flood_polygons))

\* the segment loop from segment i on: the table it leaves, its two counters
\* and whether it raised (a segment without id, a geometry shape() rejects)
RECURSIVE segment_loop(_, _, _, _, _, _, _)
segment_loop(table, road_segments, i, flood_polygons, t, updated_count, closed_count) ==
    IF i > Len(road_segments)
    THEN [table |-> table, raised |-> FALSE,
          updated |-> updated_count, closed |-> closed_count]
    ELSE LET segment == road_segments[i] IN
        IF "road_segment_id" \notin DOMAIN segment
        THEN [table |-> table, raised |-> TRUE,
              updated |-> updated_count, closed |-> closed_count]
        ELSE IF no_geometry(segment)
        THEN segment_loop(table, road_segments, i + 1, flood_polygons, t,
                          updated_count, closed_count)
        ELSE IF shape_raises(segment.geometry)
        THEN [table |-> table, raised |-> TRUE,
              updated |-> updated_count, closed |-> closed_count]
        ELSE segment_loop(segment_upsert(table, segment, flood_polygons, t),
                          road_segments, i + 1, flood_polygons, t,
                          updated_count + 1,
                          IF segment_closed(segment, flood_polygons)
                          THEN closed_count + 1 ELSE closed_count)

zero_summary == [updated |-> 0, closed |-> 0, total_segments |-> 0, flood_polygons |-> 0]

\* a slip: no early return when there is no active prediction, so that every
\* segment is upserted at baseline
update_road_risks_no_return(list, table, t, args) ==
    LET predictions == get_latest_predictions(list, t, args.minutes)
        flood_features == predictions.features
        road_segments == IF "road_segments" \in DOMAIN args
                         THEN args.road_segments ELSE get_road_risks(table)
        done == segment_loop(table, road_segments, 1,
                             to_flood_polygons(flood_features), t, 0, 0)
    IN  IF predictions.raised THEN [raised |-> TRUE, table |-> table]
        ELSE IF flood_polygons_raise(flood_features)
        THEN [raised |-> TRUE, table |-> table]
        ELSE IF done.raised THEN [raised |-> TRUE, table |-> done.table]
        ELSE [raised |-> FALSE, table |-> done.table,
              summary |-> [updated |-> done.updated,
                           closed |-> done.closed,
                           total_segments |-> Len(road_segments),
                           flood_polygons |-> Len(flood_features)]]

\* update_road_risks(road_segments, prediction_window_minutes) on the store
\* and the table: what it returns or that it raised, and the table it leaves.
\* args holds "road_segments" unless the caller passed None.
update_road_risks(list, table, t, args) ==
    LET predictions == get_latest_predictions(list, t, args.minutes)
        flood_features == predictions.features
        road_segments == IF "road_segments" \in DOMAIN args
                         THEN args.road_segments ELSE get_road_risks(table)
        done == segment_loop(table, road_segments, 1,
                             to_flood_polygons(flood_features), t, 0, 0)
    IN  IF predictions.raised THEN [raised |-> TRUE, table |-> table]
        ELSE IF flood_features = <<>>
        THEN [raised |-> FALSE, table |-> table, summary |-> zero_summary]
        ELSE IF flood_polygons_raise(flood_features)
        THEN [raised |-> TRUE, table |-> table]
        ELSE IF done.raised THEN [raised |-> TRUE, table |-> done.table]
        ELSE [raised |-> FALSE, table |-> done.table,
              summary |-> [updated |-> done.updated,
                           closed |-> done.closed,
                           total_segments |-> Len(road_segments),
                           flood_polygons |-> Len(flood_features)]]

-----------------------------------------------------------------------------
(* routing/routing_api.py *)

zero_risk == [max_submergence_ratio |-> 0, exposure_length |-> 0,
              predicted_arrival_risk |-> 0]

\* LineString(line_coords) of a route whose waypoints run in one direction,
\* and its length in degrees
route_line(route_coords) ==
    LineStringGeom(route_coords[1], route_coords[Len(route_coords)])

\* a slip: every polygon shape() accepts is scored, whether the route
\* crosses it or not
RECURSIVE risk_loop_all(_, _, _, _, _)
risk_loop_all(line, flood_features, i, max_submergence, exposure_length_deg) ==
    IF i > Len(flood_features)
    THEN [max_submergence |-> max_submergence,
          exposure_length_deg |-> exposure_length_deg]
    ELSE LET feature == flood_features[i] IN
        IF shape_raises(feature.geometry)
        THEN risk_loop_all(line, flood_features, i + 1, max_submergence, exposure_length_deg)
        ELSE risk_loop_all(line, flood_features, i + 1,
                Max2(max_submergence, Get(feature.properties, "submergence_ratio", 0)),
                exposure_length_deg + intersection_length(line, feature.geometry))

\* the loop over the flood features from feature i on: the full-precision
\* maximum and the accumulated exposure in degrees
RECURSIVE risk_loop(_, _, _, _, _)
risk_loop(line, flood_features, i, max_submergence, exposure_length_deg) ==
    IF i > Len(flood_features)
    THEN [max_submergence |-> max_submergence,
          exposure_length_deg |-> exposure_length_deg]
    ELSE LET feature == flood_features[i] IN
        IF shape_raises(feature.geometry) \/ ~intersects(line, feature.geometry)
        THEN risk_loop(line, flood_features, i + 1, max_submergence, exposure_length_deg)
        ELSE risk_loop(line, flood_features, i + 1,
                Max2(max_submergence, Get(feature.properties, "submergence_ratio", 0)),
                exposure_length_deg + intersection_length(line, feature.geometry))

METRES_PER_DEGREE == 111000

\* a slip: the blend rounded without min(1.0, ..)
arrival_risk_unclamped(max_submergence, exposure_length_deg, total_length) ==
    LET num == IF total_length > 0
               THEN 6 * max_submergence * total_length + 4 * exposure_length_deg * Scale
               ELSE 6 * max_submergence
        den == IF total_length > 0 THEN 10 * total_length ELSE 10
    IN  10 * RoundDiv(num, 10 * den)

\* min(1.0, 0.6 * max_submergence + 0.4 * exposure / total), then round(.., 4)
arrival_risk(max_submergence, exposure_length_deg, total_length) ==
    LET num == IF total_length > 0
               THEN 6 * max_submergence * total_length + 4 * exposure_length_deg * Scale
               ELSE 6 * max_submergence
        den == IF total_length > 0 THEN 10 * total_length ELSE 10
    IN  IF num >= Scale * den THEN Scale ELSE 10 * RoundDiv(num, 10 * den)

compute_route_risk(route_coords, flood_features) ==
    IF route_coords = <<>> \/ flood_features = <<>> THEN zero_risk
    ELSE IF Len(route_coords) < 2 THEN zero_risk
    ELSE LET line == route_line(route_coords)
             acc == risk_loop(line, flood_features, 1, 0, 0)
         IN  [max_submergence_ratio |-> Round4(acc.max_submergence),
              exposure_length |-> acc.exposure_length_deg * METRES_PER_DEGREE,
              predicted_arrival_risk |->
                  arrival_risk(acc.max_submergence, acc.exposure_length_deg,
                               line.hi - line.lo)]

\* a slip: the blocking boundary made inclusive
determine_status_inclusive(max_submergence, route_available) ==
    IF ~route_available THEN "blocked"
    ELSE IF max_submergence >= 70000 THEN "blocked"
    ELSE IF max_submergence > 20000 THEN "rerouted"
    ELSE "ok"

determine_status(max_submergence, route_available) ==
    IF ~route_available THEN "blocked"
    ELSE IF max_submergence > 70000 THEN "blocked"
    ELSE IF max_submergence > 20000 THEN "rerouted"
    ELSE "ok"

\* a slip: the scorer's all-zero risk reused in the degraded response
blocked_response_zero_risk(start, goal) ==
    [status |-> "blocked", start |-> start, goal |-> goal, route |-> <<>>,
     risk_level |-> "severe", max_submergence_ratio |-> 0,
     exposure_length |-> 0, predicted_arrival_risk |-> 0]

blocked_response(start, goal) ==
    [status |-> "blocked", start |-> start, goal |-> goal, route |-> <<>>,
     risk_level |-> "severe", max_submergence_ratio |-> 0,
     exposure_length |-> 0, predicted_arrival_risk |-> Scale]

\* handle_route_request on the store, given what the path-finder answers when
\* it is asked: the fetch of the predictions comes first, and if it raises the
\* path-finder is not called
\* a slip: a request that also consults the road-risk table and reroutes
\* when the table holds a closed road
handle_route_request_using_table(list, t, args, osrm_result) ==
    LET predictions == get_latest_predictions(list, t, args.minutes)
        risk == compute_route_risk(osrm_result.route, predictions.features)
        closed == \E i \in DOMAIN road_risks : road_risks[i].is_closed
    IN  IF predictions.raised THEN [raised |-> TRUE, osrm_called |-> FALSE]
        ELSE IF osrm_result.status # "ok"
        THEN [raised |-> FALSE, osrm_called |-> TRUE,
              response |-> blocked_response(args.start, args.goal)]
        ELSE [raised |-> FALSE, osrm_called |-> TRUE,
              response |->
                [status |-> IF closed THEN "rerouted"
                            ELSE determine_status(risk.max_submergence_ratio, TRUE),
                 start |-> args.start,
                 goal |-> args.goal,
                 route |-> osrm_result.route,
                 risk_level |-> get_risk_level(risk.max_submergence_ratio),
                 max_submergence_ratio |-> risk.max_submergence_ratio,
                 exposure_length |-> risk.exposure_length,
                 predicted_arrival_risk |-> risk.predicted_arrival_risk]]

handle_route_request(list, t, args, osrm_result) ==
    LET predictions == get_latest_predictions(list, t, args.minutes)
        risk == compute_route_risk(osrm_result.route, predictions.features)
    IN  IF predictions.raised THEN [raised |-> TRUE, osrm_called |-> FALSE]
        ELSE IF osrm_result.status # "ok"
        THEN [raised |-> FALSE, osrm_called |-> TRUE,
              response |-> blocked_response(args.start, args.goal)]
        ELSE [raised |-> FALSE, osrm_called |-> TRUE,
              response |->
                [status |-> determine_status(risk.max_submergence_ratio, TRUE),
                 start |-> args.start,
                 goal |-> args.goal,
                 route |-> osrm_result.route,
                 risk_level |-> get_risk_level(risk.max_submergence_ratio),
                 max_submergence_ratio |-> risk.max_submergence_ratio,
                 exposure_length |-> risk.exposure_length,
                 predicted_arrival_risk |-> risk.predicted_arrival_risk]]

-----------------------------------------------------------------------------
(* Bounds and input domains *)

\* the store holds at most this many predictions
MaxPreds == 2

\* the instants the clock takes, in minutes
Clock == {0, 60}

SeqsUpTo(S, n) == UNION {[1..k -> S] : k \in 0..n}

Feature(g, r) == [geometry |-> g, properties |-> [submergence_ratio |-> r]]

\* flood features of the risk engine's callers: polygons over the road at
\* [0, 1] with ratios in three tiers and on both sides of the closure
\* threshold, and a polygon away from the road
RiskFeatures ==
    {Feature(Polygon(0, 1), r) : r \in {30000, 70000, 70004}}
    \cup {Feature(Polygon(2, 3), 85000)}

\* a feature without submergence_ratio in its properties
NoRatioFeature == [geometry |-> Polygon(0, 1), properties |-> [velocity |-> 1]]

\* batches a producer at fault delivers: a polygon shape() rejects, and a
\* feature without submergence_ratio after a feature that has one
FaultyBatches ==
    {[features |-> <<Feature(MalformedGeom, 50000)>>],
     [features |-> <<Feature(Polygon(0, 1), 30000), NoRatioFeature>>]}

RiskBatches ==
    {[features |-> <<f>>] : f \in RiskFeatures}
    \cup {[features |-> <<Feature(Polygon(0, 1), 30000), Feature(Polygon(0, 1), 70004)>>],
          [features |-> <<Feature(Polygon(2, 3), 85000), Feature(Polygon(0, 1), 70000)>>],
          [features |-> <<>>]}

BaseWeights == {Fin(-1), Fin(2), Inf}

Road == [road_segment_id |-> "r1", geometry |-> LineStringGeom(0, 1)]

RoadWeighing(b) ==
    [road_segment_id |-> "r1", geometry |-> LineStringGeom(0, 1), base_weight |-> b]

\* a second road, away from the first
Road2 == [road_segment_id |-> "r2", geometry |-> LineStringGeom(2, 3)]

\* the road_segments a cycle is given; without the key the cycle reads the table
UpdateArgs ==
    {[minutes |-> 30]}
    \cup {[minutes |-> 30, road_segments |-> segs] :
            segs \in {<<>>, <<Road>>, <<[road_segment_id |-> "r1"]>>,
                      <<RoadWeighing(Inf)>>, <<RoadWeighing(Fin(-1))>>,
                      <<Road, RoadWeighing(Fin(2))>>}}

-----------------------------------------------------------------------------
(* The callers' operations, one call at a time *)

NoThreads == <<>>

Init ==
    /\ now = 0
    /\ flood_predictions = <<>>
    /\ road_risks = <<>>
    /\ call = [op |-> "none"]
    /\ ret = [raised |-> FALSE]
    /\ thr = NoThreads

Tick ==
    /\ \E t \in Clock : t > now /\ now' = t
    /\ call' = [op |-> "tick"]
    /\ ret' = [raised |-> FALSE]
    /\ UNCHANGED <<flood_predictions, road_risks, thr>>

StorePredictions(geojson) ==
    LET done == store_predictions(flood_predictions, geojson, now)
    IN  /\ Len(flood_predictions) + Len(Get(geojson, "features", <<>>)) <= MaxPreds
        /\ flood_predictions' = done.list
        /\ call' = [op |-> "store_predictions", geojson |-> geojson]
        /\ ret' = IF done.raised THEN [raised |-> TRUE]
                  ELSE [raised |-> FALSE, value |-> done.value]
        /\ UNCHANGED <<now, road_risks, thr>>

ClearOldPredictions(hours) ==
    LET done == clear_old_predictions(flood_predictions, now, hours)
    IN  /\ flood_predictions' = done.list
        /\ call' = [op |-> "clear_old_predictions", hours |-> hours]
        /\ ret' = IF done.raised THEN [raised |-> TRUE]
                  ELSE [raised |-> FALSE,
                        value |-> Len(flood_predictions) - Len(done.list)]
        /\ UNCHANGED <<now, road_risks, thr>>

UpdateRoadRisks(args) ==
    LET done == update_road_risks(flood_predictions, road_risks, now, args)
    IN  /\ road_risks' = done.table
        /\ call' = [op |-> "update_road_risks", args |-> args]
        /\ ret' = IF done.raised THEN [raised |-> TRUE]
                  ELSE [raised |-> FALSE, value |-> done.summary]
        /\ UNCHANGED <<now, flood_predictions, thr>>

Next ==
    \/ Tick
    \/ \E geojson \in RiskBatches : StorePredictions(geojson)
    \/ \E hours \in {0, 1} : ClearOldPredictions(hours)
    \/ \E args \in UpdateArgs : UpdateRoadRisks(args)

Spec == Init /\ [][Next]_vars

-----------------------------------------------------------------------------
(* Routing requests against the store *)

TimedFeature(g, r, ts) ==
    [geometry |-> g, properties |-> [submergence_ratio |-> r, timestamp |-> ts]]

\* flood features of the routing callers: a polygon over [0, 1] in every tier
\* and just above the blocking threshold, a polygon over [2, 3], and a feature
\* whose timestamp carries no offset
RouteFeatures ==
    {Feature(Polygon(0, 1), r) : r \in {20000, 30000, 50000, 70004}}
    \cup {Feature(Polygon(2, 3), 85000),
          TimedFeature(Polygon(0, 1), 30000, Naive(0))}

RouteBatches == {[features |-> <<f>>] : f \in RouteFeatures}

\* what the path-finder client returns
OsrmResults ==
    {[status |-> "error", message |-> "No route found", route |-> <<>>],
     [status |-> "ok", route |-> <<0, 1>>],
     [status |-> "ok", route |-> <<0, 2, 3>>]}

RouteArgs == {[start |-> 0, goal |-> 3, minutes |-> 30]}

HandleRouteRequest(args, osrm_result) ==
    LET done == handle_route_request(flood_predictions, now, args, osrm_result)
    IN  /\ call' = IF done.osrm_called
                   THEN [op |-> "handle_route_request", args |-> args,
                         osrm_result |-> osrm_result]
                   ELSE [op |-> "handle_route_request", args |-> args]
        /\ ret' = IF done.raised THEN [raised |-> TRUE]
                  ELSE [raised |-> FALSE, response |-> done.response]
        /\ UNCHANGED <<now, flood_predictions, road_risks, thr>>

NextRoute ==
    \/ Tick
    \/ \E geojson \in RouteBatches : StorePredictions(geojson)
    \/ \E args \in RouteArgs, osrm_result \in OsrmResults :
            HandleRouteRequest(args, osrm_result)

SpecRoute == Init /\ [][NextRoute]_vars

-----------------------------------------------------------------------------
(* Properties of the routing orchestrator *)

SetMax(S) == CHOOSE x \in S : \A y \in S : y <= x

\* the last call was a routing request that the path-finder answered
Routed == call.op = "handle_route_request" /\ "osrm_result" \in DOMAIN call

\* the stored predictions a window of the last call's length makes active
ActiveNow(minutes) ==
    {i \in 1..Len(flood_predictions) :
        LET ts == flood_predictions[i].timestamp
        IN  (IF ts.kind = "malformed" THEN now ELSE ts.t) >= now - minutes}

\* the full-precision maximum ratio of the active polygons that share a point
\* with the line from the first to the last waypoint of the route, 0 if none
FullPrecisionMax(route, minutes) ==
    SetMax({0} \cup
        {flood_predictions[i].submergence_ratio : i \in
            {j \in ActiveNow(minutes) :
                /\ flood_predictions[j].geometry.lo <= route[Len(route)]
                /\ route[1] <= flood_predictions[j].geometry.hi}})

C4_StatusOnFullPrecision ==
    (/\ Routed
     /\ call.osrm_result.status = "ok"
     /\ Len(call.osrm_result.route) >= 2
     /\ ~ret.raised) =>
        LET M == FullPrecisionMax(call.osrm_result.route, call.args.minutes)
        IN  ret.response.status =
                IF M > 70000 THEN "blocked"
                ELSE IF M > 20000 THEN "rerouted" ELSE "ok"

\* C5: in every response to a request the path-finder answered with ok, status
\* and risk level agree (blocked iff severe, ok iff low, rerouted iff moderate
\* or high), and both are the tiers of the max_submergence_ratio returned.
C5_StatusAgreesWithRiskLevel ==
    (Routed /\ call.osrm_result.status = "ok" /\ ~ret.raised) =>
        LET r == ret.response
            m == r.max_submergence_ratio
        IN  /\ (r.status = "blocked") <=> (r.risk_level = "severe")
            /\ (r.status = "ok") <=> (r.risk_level = "low")
            /\ (r.status = "rerouted") <=> (r.risk_level \in {"moderate", "high"})
            /\ r.status = (IF m > 70000 THEN "blocked"
                           ELSE IF m > 20000 THEN "rerouted" ELSE "ok")
            /\ r.risk_level = (IF m > 70000 THEN "severe"
                               ELSE IF m > 40000 THEN "high"
                               ELSE IF m > 20000 THEN "moderate" ELSE "low")

\* C5 witness: a rerouted response of high risk whose returned ratio is 0.7
C5_Witness ==
    /\ Routed
    /\ call.osrm_result.status = "ok"
    /\ ~ret.raised
    /\ ret.response.status = "rerouted"
    /\ ret.response.risk_level = "high"
    /\ ret.response.max_submergence_ratio = 70000

-----------------------------------------------------------------------------
(* Properties of the road risk engine *)

\* the last call was a risk-update cycle
Updated == call.op = "update_road_risks"

\* C8: a cycle that finds no active flood prediction returns updated 0, closed
\* 0, total_segments 0 and flood_polygons 0 whatever segments it is given, and
\* leaves every record of the road-risk table as it was.
C8_NoActivePredictionsNoUpdate ==
    [][(/\ call'.op = "update_road_risks"
        /\ ActiveNow(call'.args.minutes) = {}
        /\ ~ret'.raised) =>
            /\ ret'.value = [updated |-> 0, closed |-> 0,
                             total_segments |-> 0, flood_polygons |-> 0]
            /\ road_risks' = road_risks]_vars

\* C8 witness: a cycle given a segment with geometry ran over a table that
\* holds an older record of it, when every stored prediction had left the window
C8_Witness ==
    /\ Updated
    /\ "road_segments" \in DOMAIN call.args
    /\ call.args.road_segments = <<Road>>
    /\ flood_predictions # <<>>
    /\ ActiveNow(call.args.minutes) = {}
    /\ road_risks # <<>>
    /\ road_risks[1].updated_at.t < now
    /\ ~ret.raised

BasePositive(r) == r.base_weight.inf \/ r.base_weight.v > 0

RecordKeepsTiers(r) ==
    /\ r.dynamic_weight = compute_weight(r.base_weight, r.max_submergence)
    /\ r.is_closed = (r.max_submergence > 70000)
    /\ BasePositive(r) => WLeq(r.base_weight, r.dynamic_weight)

\* C10 as claimed: every record of the road-risk table has dynamic_weight =
\* compute_weight(base_weight, max_submergence), is_closed = (max_submergence >
\* 0.7), is_closed = (dynamic_weight is +infinity), and dynamic_weight >=
\* base_weight when base_weight > 0.
C10_RecordConsistent ==
    \A i \in 1..Len(road_risks) :
        /\ RecordKeepsTiers(road_risks[i])
        /\ road_risks[i].is_closed = road_risks[i].dynamic_weight.inf

\* C10 amended: the same, with is_closed = (dynamic_weight is +infinity) only
\* for the records whose base_weight keeps a finite product with the largest
\* finite multiplier; a closed record always has an infinite dynamic_weight,
\* and a record of infinite base_weight has one whether it is closed or not.
C10_RecordConsistentFiniteProduct ==
    \A i \in 1..Len(road_risks) :
        /\ RecordKeepsTiers(road_risks[i])
        /\ road_risks[i].is_closed => road_risks[i].dynamic_weight.inf
        /\ ~Times(road_risks[i].base_weight, MULTIPLIER_HIGH).inf =>
                (road_risks[i].is_closed = road_risks[i].dynamic_weight.inf)

\* C10 witness: after a store and a cycle the table holds a closed record of
\* finite base weight
C10_Witness ==
    /\ Updated
    /\ \E i \in 1..Len(road_risks) :
        /\ ~road_risks[i].base_weight.inf
        /\ road_risks[i].is_closed
        /\ road_risks[i].max_submergence = 70004

-----------------------------------------------------------------------------
(* The risk tier functions on their own *)

TierRatios ==
    {0, 10000, 20000, 20001, 30000, 40000, 40001, 50000, 70000, 70001, 80000, Scale}

TierBaseWeights == {Fin(1), Fin(2), Inf}

InitTier ==
    /\ now = 0
    /\ flood_predictions = <<>>
    /\ road_risks = <<>>
    /\ call \in {[op |-> "tiers", base_weight |-> b, submergence_ratio |-> r] :
                    b \in TierBaseWeights, r \in TierRatios}
    /\ ret = [raised |-> FALSE]
    /\ thr = NoThreads

ComputeWeight ==
    /\ ret' = ("weight" :> compute_weight(call.base_weight, call.submergence_ratio)) @@ ret
    /\ UNCHANGED <<now, flood_predictions, road_risks, call, thr>>

GetRiskLevel ==
    /\ ret' = ("level" :> get_risk_level(call.submergence_ratio)) @@ ret
    /\ UNCHANGED <<now, flood_predictions, road_risks, call, thr>>

IsRoadClosed ==
    /\ ret' = ("closed" :> is_road_closed(call.submergence_ratio)) @@ ret
    /\ UNCHANGED <<now, flood_predictions, road_risks, call, thr>>

NextTier == ComputeWeight \/ GetRiskLevel \/ IsRoadClosed

SpecTier == InitTier /\ [][NextTier]_vars

\* C6: for every ratio r, is_road_closed(r) is true exactly when
\* get_risk_level(r) is "severe", and, for a finite base weight, exactly when
\* compute_weight(base, r) is +infinity.
C6_ClosedIffSevereIffInfinite ==
    /\ {"closed", "level"} \subseteq DOMAIN ret =>
            (ret.closed <=> (ret.level = "severe"))
    /\ ({"closed", "weight"} \subseteq DOMAIN ret /\ ~call.base_weight.inf) =>
            (ret.closed <=> ret.weight.inf)
    /\ ({"level", "weight"} \subseteq DOMAIN ret /\ ~call.base_weight.inf) =>
            ((ret.level = "severe") <=> ret.weight.inf)

\* C6 witness: the three functions applied to the ratio at the closure
\* threshold itself, with a finite base weight
C6_Witness ==
    /\ call.op = "tiers"
    /\ call.submergence_ratio = 70000
    /\ ~call.base_weight.inf
    /\ {"closed", "level", "weight"} \subseteq DOMAIN ret
    /\ ~ret.closed

\* the tier table of the specification
TierTable(b, r) ==
    IF r <= 20000 THEN b
    ELSE IF r <= 40000 THEN Times(b, 2)
    ELSE IF r <= 70000 THEN Times(b, 5)
    ELSE Inf

-----------------------------------------------------------------------------
(* intersect_road_with_floods on its own *)

\* the list handed to intersect_road_with_floods holds at most this many polygons
MaxPolys == 2

FloodPolygons ==
    {[geometry |-> g, submergence_ratio |-> r] :
        g \in {Polygon(0, 1), Polygon(1, 2), Polygon(3, 4)},
        r \in {0, 30000, 70000}}

RoadGeometries == {LineStringGeom(0, 1), LineStringGeom(2, 3), LineStringGeom(5, 6)}

InitIntersect ==
    /\ now = 0
    /\ flood_predictions = <<>>
    /\ road_risks = <<>>
    /\ call \in {[op |-> "intersect_road_with_floods", road_geometry |-> g,
                  flood_polygons |-> ps] :
                    g \in RoadGeometries, ps \in SeqsUpTo(FloodPolygons, MaxPolys)}
    /\ ret = [raised |-> FALSE]
    /\ thr = NoThreads

IntersectRoadWithFloods ==
    /\ "value" \notin DOMAIN ret
    /\ ret' = [raised |-> FALSE,
               value |-> intersect_road_with_floods(call.road_geometry, call.flood_polygons)]
    /\ UNCHANGED <<now, flood_predictions, road_risks, call, thr>>

NextIntersect == IntersectRoadWithFloods

SpecIntersect == InitIntersect /\ [][NextIntersect]_vars

\* the ratios of the polygons of the call that share a point with its road
RatiosOnRoad ==
    {call.flood_polygons[i].submergence_ratio : i \in
        {j \in 1..Len(call.flood_polygons) :
            /\ call.flood_polygons[j].geometry.lo <= call.road_geometry.hi
            /\ call.road_geometry.lo <= call.flood_polygons[j].geometry.hi}}

\* C9: intersect_road_with_floods returns the maximum submergence_ratio over
\* exactly the polygons that intersect the road, never an average or a sum,
\* and 0.0 when none intersects or the list is empty.
C9_MaxOverIntersecting ==
    (call.op = "intersect_road_with_floods" /\ "value" \in DOMAIN ret) =>
        ret.value = IF RatiosOnRoad = {} THEN 0 ELSE SetMax(RatiosOnRoad)

\* C9 witness: a road crossing a polygon of ratio 0.3 and one of ratio 0.7
\* is given 0.7
C9_Witness ==
    /\ call.op = "intersect_road_with_floods"
    /\ "value" \in DOMAIN ret
    /\ RatiosOnRoad = {30000, 70000}
    /\ ret.value = 70000

-----------------------------------------------------------------------------
(* store_predictions and get_latest_predictions run by two callers at once. *)
(* Nothing in flood_store.py or MockConnection locks the list, so a caller  *)
(* may be preempted between two appends of store_predictions and between    *)
(* two iterations of the loop of get_latest_predictions; a list iterator    *)
(* reads the live list, so it meets the records appended while it runs.     *)
(* Ghost fields: storer.first is the place of the batch's first record,     *)
(* reader.seen the places of the records the reader returned.               *)

ConcBatches ==
    {[features |-> fs] :
        fs \in {<<Feature(Polygon(0, 1), 30000)>>,
                <<Feature(Polygon(0, 1), 30000), Feature(Polygon(2, 3), 85000)>>,
                <<Feature(Polygon(0, 1), 70004), Feature(Polygon(0, 1), 30000),
                  Feature(Polygon(2, 3), 85000)>>}}

\* the store holds at most this many predictions when callers overlap
MaxConcPreds == 4

IdleStorer == [pc |-> "idle", features |-> <<>>, i |-> 1, first |-> 1]

IdleReader == [pc |-> "idle", i |-> 1, cutoff |-> 0, features |-> <<>>, seen |-> {}]

InitConcStore ==
    /\ now = 0
    /\ flood_predictions = <<>>
    /\ road_risks = <<>>
    /\ call = [op |-> "none"]
    /\ ret = [raised |-> FALSE]
    /\ thr = [storer |-> IdleStorer, reader |-> IdleReader]

\* store_predictions up to its loop
StoreBegin(geojson) ==
    LET features == Get(geojson, "features", <<>>)
    IN  /\ thr.storer.pc \in {"idle", "done"}
        /\ Len(flood_predictions) + Len(features) <= MaxConcPreds
        /\ thr' = [thr EXCEPT !.storer =
                    [pc |-> IF features = <<>> THEN "done" ELSE "loop",
                     features |-> features, i |-> 1,
                     first |-> Len(flood_predictions) + 1]]
        /\ UNCHANGED <<now, flood_predictions, road_risks, call, ret>>

\* one iteration of the loop of store_predictions; the return follows the last
StoreAppend ==
    LET me == thr.storer
    IN  /\ me.pc = "loop"
        /\ IF feature_ok(me.features[me.i])
           THEN /\ flood_predictions' =
                        Append(flood_predictions, stored_record(me.features[me.i], now))
                /\ thr' = [thr EXCEPT !.storer.i = me.i + 1,
                                      !.storer.pc = IF me.i = Len(me.features)
                                                    THEN "done" ELSE "loop"]
           ELSE /\ thr' = [thr EXCEPT !.storer.pc = "raised"]
                /\ UNCHANGED flood_predictions
        /\ UNCHANGED <<now, road_risks, call, ret>>

\* get_latest_predictions up to its loop
LatestBegin(minutes) ==
    /\ thr.reader.pc \in {"idle", "done", "raised"}
    /\ thr' = [thr EXCEPT !.reader =
                [pc |-> "loop", i |-> 1, cutoff |-> now - minutes,
                 features |-> <<>>, seen |-> {}]]
    /\ UNCHANGED <<now, flood_predictions, road_risks, call, ret>>

\* one iteration of the loop of get_latest_predictions over the live list
LatestStep ==
    LET me == thr.reader
        pred == flood_predictions[me.i]
    IN  /\ me.pc = "loop"
        /\ me.i <= Len(flood_predictions)
        /\ thr' = IF ts_raises(pred.timestamp)
                  THEN [thr EXCEPT !.reader.pc = "raised"]
                  ELSE IF parse_ts(pred.timestamp, now) >= me.cutoff
                  THEN [thr EXCEPT !.reader.i = me.i + 1,
                                   !.reader.features = Append(me.features, latest_feature(pred)),
                                   !.reader.seen = me.seen \cup {me.i}]
                  ELSE [thr EXCEPT !.reader.i = me.i + 1]
        /\ UNCHANGED <<now, flood_predictions, road_risks, call, ret>>

\* the iterator is exhausted: get_latest_predictions returns its features
LatestReturn ==
    /\ thr.reader.pc = "loop"
    /\ thr.reader.i > Len(flood_predictions)
    /\ thr' = [thr EXCEPT !.reader.pc = "done"]
    /\ UNCHANGED <<now, flood_predictions, road_risks, call, ret>>

NextConcStore ==
    \/ \E geojson \in ConcBatches : StoreBegin(geojson)
    \/ StoreAppend
    \/ \E minutes \in {30} : LatestBegin(minutes)
    \/ LatestStep
    \/ LatestReturn

SpecConcStore == InitConcStore /\ [][NextConcStore]_vars

\* the places in the list of the records of the storer's batch
BatchPlaces == thr.storer.first .. (thr.storer.first + Len(thr.storer.features) - 1)

\* C1 as claimed: a latest() whose window covers the timestamps of a batch of
\* k >= 2 features that store() is appending returns none or all k of the
\* batch's records, never a non-empty proper subset.
C1_LatestSeesWholeBatch ==
    (/\ thr.reader.pc = "done"
     /\ thr.storer.pc \in {"loop", "done"}
     /\ Len(thr.storer.features) >= 2) =>
        \/ thr.reader.seen \cap BatchPlaces = {}
        \/ BatchPlaces \subseteq thr.reader.seen

-----------------------------------------------------------------------------
(* Two risk-update cycles run at once.  upsert_road_risk searches the table *)
(* for the id and, when the search ends without a match, appends a record;  *)
(* nothing locks the table between the end of the search and the append.    *)
(* A match is updated by one dict.update call, which is not interrupted.    *)

Updaters == {1, 2}

ConcSegments ==
    {<<Road>>, <<RoadWeighing(Fin(2))>>, <<RoadWeighing(Inf), Road>>}

ConcStores ==
    {<<stored_record(Feature(Polygon(0, 1), r), 0)>> : r \in {30000, 70004}}

IdleUpdater ==
    [pc |-> "idle", road_segments |-> <<>>, i |-> 1, flood_polygons |-> <<>>,
     updated_count |-> 0, closed_count |-> 0]

InitConcUpsert ==
    /\ now = 0
    /\ flood_predictions \in ConcStores
    /\ road_risks = <<>>
    /\ call = [op |-> "none"]
    /\ ret = [raised |-> FALSE]
    /\ thr = [u \in Updaters |-> IdleUpdater]

\* update_road_risks up to its segment loop
UpdateBegin(u, args) ==
    LET predictions == get_latest_predictions(flood_predictions, now, args.minutes)
        flood_features == predictions.features
    IN  /\ thr[u].pc = "idle"
        /\ thr' = [thr EXCEPT ![u] =
                IF predictions.raised THEN [IdleUpdater EXCEPT !.pc = "raised"]
                ELSE IF flood_features = <<>> THEN [IdleUpdater EXCEPT !.pc = "done"]
                ELSE IF flood_polygons_raise(flood_features)
                THEN [IdleUpdater EXCEPT !.pc = "raised"]
                ELSE [pc |-> "loop",
                      road_segments |-> IF "road_segments" \in DOMAIN args
                                        THEN args.road_segments
                                        ELSE get_road_risks(road_risks),
                      i |-> 1,
                      flood_polygons |-> to_flood_polygons(flood_features),
                      updated_count |-> 0, closed_count |-> 0]]
        /\ UNCHANGED <<now, flood_predictions, road_risks, call, ret>>

\* the counters and the position after the upsert of segment i
Upserted(me) ==
    [me EXCEPT !.pc = "loop", !.i = me.i + 1,
               !.updated_count = me.updated_count + 1,
               !.closed_count = IF segment_closed(me.road_segments[me.i], me.flood_polygons)
                                THEN me.closed_count + 1 ELSE me.closed_count]

\* one iteration of the segment loop up to the end of the search of
\* upsert_road_risk: a record found is updated there and then
UpdateSegment(u) ==
    LET me == thr[u]
        segment == me.road_segments[me.i]
    IN  /\ me.pc = "loop"
        /\ me.i <= Len(me.road_segments)
        /\ IF "road_segment_id" \notin DOMAIN segment
           THEN /\ thr' = [thr EXCEPT ![u].pc = "raised"]
                /\ UNCHANGED road_risks
           ELSE IF no_geometry(segment)
           THEN /\ thr' = [thr EXCEPT ![u].i = me.i + 1]
                /\ UNCHANGED road_risks
           ELSE IF shape_raises(segment.geometry)
           THEN /\ thr' = [thr EXCEPT ![u].pc = "raised"]
                /\ UNCHANGED road_risks
           ELSE IF find_risk(road_risks, segment.road_segment_id) > 0
           THEN /\ road_risks' = segment_upsert(road_risks, segment, me.flood_polygons, now)
                /\ thr' = [thr EXCEPT ![u] = Upserted(me)]
           ELSE /\ thr' = [thr EXCEPT ![u].pc = "append"]
                /\ UNCHANGED road_risks
        /\ UNCHANGED <<now, flood_predictions, call, ret>>

\* the append of upsert_road_risk after a search that found no record
UpdateAppend(u) ==
    LET me == thr[u]
        segment == me.road_segments[me.i]
        base_weight == Get(segment, "base_weight", Fin(1))
        max_sub == intersect_road_with_floods(segment.geometry, me.flood_polygons)
    IN  /\ me.pc = "append"
        /\ road_risks' = Append(road_risks,
                new_risk(segment.road_segment_id, base_weight,
                         compute_weight(base_weight, max_sub), max_sub,
                         is_road_closed(max_sub), segment.geometry, now))
        /\ thr' = [thr EXCEPT ![u] = Upserted(me)]
        /\ UNCHANGED <<now, flood_predictions, call, ret>>

\* the segment loop is over: update_road_risks returns its summary
UpdateReturn(u) ==
    /\ thr[u].pc = "loop"
    /\ thr[u].i > Len(thr[u].road_segments)
    /\ thr' = [thr EXCEPT ![u].pc = "done"]
    /\ UNCHANGED <<now, flood_predictions, road_risks, call, ret>>

NextConcUpsert ==
    \/ \E u \in Updaters, segs \in ConcSegments :
            UpdateBegin(u, [minutes |-> 30, road_segments |-> segs])
    \/ \E u \in Updaters : UpdateSegment(u)
    \/ \E u \in Updaters : UpdateAppend(u)
    \/ \E u \in Updaters : UpdateReturn(u)

SpecConcUpsert == InitConcUpsert /\ [][NextConcUpsert]_vars

\* C2 as claimed: whatever the interleaving of the cycles, the road-risk table
\* holds at most one record for a road_segment_id.
C2_OneRecordPerSegment ==
    \A i, j \in 1..Len(road_risks) :
        road_risks[i].road_segment_id = road_risks[j].road_segment_id => i = j

-----------------------------------------------------------------------------
(* Recomputation of the persisted segments *)

\* the ratios of the active predictions whose polygon shares a point with
\* the geometry, at the last call's window
ActiveRatiosOn(geometry, minutes) ==
    {flood_predictions[j].submergence_ratio : j \in
        {k \in ActiveNow(minutes) :
            /\ flood_predictions[k].geometry.type = "Polygon"
            /\ flood_predictions[k].geometry.lo <= geometry.hi
            /\ geometry.lo <= flood_predictions[k].geometry.hi}}

\* C11 as claimed: after each completed cycle over the persisted segments,
\* every persisted segment with geometry has max_submergence, dynamic_weight
\* and is_closed derived from the predictions active at that cycle, so that a
\* segment closed by a prediction that has left the window is closed no more.
C11_RecomputedEveryCycle ==
    (Updated /\ "road_segments" \notin DOMAIN call.args /\ ~ret.raised) =>
        \A i \in 1..Len(road_risks) :
            LET r == road_risks[i]
                m == SetMax({0} \cup ActiveRatiosOn(r.geometry, call.args.minutes))
            IN  r.geometry.type = "LineString" =>
                    /\ r.max_submergence = m
                    /\ r.is_closed = (m > 70000)
                    /\ r.dynamic_weight = compute_weight(r.base_weight, m)

-----------------------------------------------------------------------------
(* The store and the risk engine fed with faulty input: a polygon shape()   *)
(* rejects, a feature without submergence_ratio, a segment without geometry *)
(* and a segment whose geometry shape() rejects.                            *)

FaultBatches ==
    FaultyBatches
    \cup {[features |-> <<Feature(Polygon(0, 1), 70004)>>],
          [features |-> <<Feature(Polygon(2, 3), 30000)>>],
          [features |-> <<Feature(Polygon(0, 1), 30000), Feature(MalformedGeom, 85000)>>]}

FaultArgs ==
    {[minutes |-> 30]}
    \cup {[minutes |-> 30, road_segments |-> segs] :
            segs \in {<<Road>>, <<Road, Road2>>,
                      <<[road_segment_id |-> "r1"], Road2>>,
                      <<Road, [road_segment_id |-> "r2", geometry |-> MalformedGeom]>>}}

NextFault ==
    \/ Tick
    \/ \E geojson \in FaultBatches : StorePredictions(geojson)
    \/ \E args \in FaultArgs : UpdateRoadRisks(args)

SpecFault == Init /\ [][NextFault]_vars

\* the records the table holds for an id
RecordsOf(table, id) == SelectSeq(table, LAMBDA r : r.road_segment_id = id)

\* the segments of a list that have a geometry
WithGeometry(road_segments) ==
    {k \in 1..Len(road_segments) : "geometry" \in DOMAIN road_segments[k]}

\* C12 as claimed: in a cycle with active predictions a segment without
\* geometry is skipped without error: the cycle does not raise, the records of
\* its id stay as they were, it is not counted as updated, and the other
\* segments of the cycle get their records.
C12_NoGeometrySkipped ==
    [][(/\ call'.op = "update_road_risks"
        /\ "road_segments" \in DOMAIN call'.args
        /\ ActiveNow(call'.args.minutes) # {}
        /\ WithGeometry(call'.args.road_segments)
                # 1..Len(call'.args.road_segments)) =>
            LET segs == call'.args.road_segments
            IN  /\ ~ret'.raised
                /\ ret'.value.updated = Cardinality(WithGeometry(segs))
                /\ \A k \in 1..Len(segs) :
                    IF k \in WithGeometry(segs)
                    THEN \E i \in 1..Len(road_risks') :
                            /\ road_risks'[i].road_segment_id = segs[k].road_segment_id
                            /\ road_risks'[i].updated_at = Aware(now)
                    ELSE RecordsOf(road_risks', segs[k].road_segment_id)
                            = RecordsOf(road_risks, segs[k].road_segment_id)]_vars

\* C18 as claimed: a store or a cycle that fails partway through its input
\* leaves the prediction store and the road-risk table as they were before
\* the call.
C18_FailureLeavesNoPart ==
    [][(call'.op \in {"store_predictions", "update_road_risks"} /\ ret'.raised) =>
            /\ flood_predictions' = flood_predictions
            /\ road_risks' = road_risks]_vars

\* the store without the predictions whose geometry shape() rejects
WellFormed(list) == SelectSeq(list, LAMBDA p : ~shape_raises(p.geometry))

\* C19 as claimed, for the risk-update cycle: when an active prediction has a
\* malformed geometry the cycle skips that polygon only, and so returns and
\* leaves the table as it would with that prediction absent.
C19_MalformedPolygonSkipped ==
    [][(/\ call'.op = "update_road_risks"
        /\ \E j \in ActiveNow(call'.args.minutes) :
                shape_raises(flood_predictions[j].geometry)) =>
            LET want == update_road_risks(WellFormed(flood_predictions),
                                          road_risks, now, call'.args)
            IN  ~want.raised =>
                    /\ ~ret'.raised
                    /\ ret'.value = want.summary
                    /\ road_risks' = want.table]_vars

-----------------------------------------------------------------------------
(* The prediction store on its own: store, latest and evict on features     *)
(* whose timestamp is absent, carries an offset, carries none, or does not  *)
(* parse.                                                                   *)

FullFeature(g, r, v, ts) ==
    [geometry |-> g, properties |-> [submergence_ratio |-> r, velocity |-> v,
                                     timestamp |-> ts]]

StoreFeatures ==
    {Feature(Polygon(0, 1), 30000),
     TimedFeature(Polygon(0, 1), 30000, Aware(0)),
     TimedFeature(Polygon(0, 1), 50000, Aware(-60)),
     FullFeature(Polygon(2, 3), 85000, 5, Aware(0)),
     TimedFeature(Polygon(0, 1), 30000, Malformed),
     TimedFeature(Polygon(0, 1), 30000, Naive(0))}

\* the FeatureCollections given to store_predictions: one feature, the same
\* feature twice, two different features, no feature, and no features key
StoreBatches ==
    {[features |-> <<f>>] : f \in StoreFeatures}
    \cup {[features |-> <<Feature(Polygon(0, 1), 30000), Feature(Polygon(0, 1), 30000)>>],
          [features |-> <<TimedFeature(Polygon(0, 1), 30000, Aware(0)),
                          FullFeature(Polygon(2, 3), 85000, 5, Aware(0))>>],
          [features |-> <<>>],
          [type |-> "FeatureCollection"]}

\* prediction windows in minutes, eviction ages in hours
Windows == {0, 30, 90}

Ages == {0, 1}

GetLatestPredictions(minutes) ==
    LET done == get_latest_predictions(flood_predictions, now, minutes)
    IN  /\ call' = [op |-> "get_latest_predictions", minutes |-> minutes]
        /\ ret' = IF done.raised THEN [raised |-> TRUE]
                  ELSE [raised |-> FALSE,
                        value |-> [type |-> "FeatureCollection",
                                   features |-> done.features]]
        /\ UNCHANGED <<now, flood_predictions, road_risks, thr>>

NextStore ==
    \/ Tick
    \/ \E geojson \in StoreBatches : StorePredictions(geojson)
    \/ \E minutes \in Windows : GetLatestPredictions(minutes)
    \/ \E hours \in Ages : ClearOldPredictions(hours)

SpecStore == Init /\ [][NextStore]_vars

\* the instant of a timestamp: a timestamp without offset read as UTC, one
\* that does not parse read as now
InstantOf(ts) == IF ts.kind = "malformed" THEN now ELSE ts.t

\* the records of a list whose instant is not before the cutoff
NotBefore(list, cutoff) ==
    SelectSeq(list, LAMBDA p : InstantOf(p.timestamp) >= cutoff)

\* the four fields of a prediction, of a stored record and of a returned feature
RecordFields(list) ==
    [i \in 1..Len(list) |->
        [geometry |-> list[i].geometry,
         submergence_ratio |-> list[i].submergence_ratio,
         velocity |-> list[i].velocity,
         timestamp |-> list[i].timestamp]]

FeatureFields(features) ==
    [i \in 1..Len(features) |->
        [geometry |-> features[i].geometry,
         submergence_ratio |-> features[i].properties.submergence_ratio,
         velocity |-> features[i].properties.velocity,
         timestamp |-> features[i].properties.timestamp]]

\* C13 as claimed: latest(window) returns, without raising, exactly the stored
\* predictions whose timestamp is >= now - window, a prediction whose
\* timestamp does not parse counting as timestamped now.
C13_LatestReturnsWindow ==
    call.op = "get_latest_predictions" =>
        /\ ~ret.raised
        /\ FeatureFields(ret.value.features)
                = RecordFields(NotBefore(flood_predictions, now - call.minutes))

\* C14 as claimed: while the store holds a prediction stored with a timestamp
\* without offset, neither latest nor evict raises, and both classify that
\* record against their cutoff as the UTC instant it names.
C14_NaiveTimestampAsUTC ==
    [][(/\ call'.op \in {"get_latest_predictions", "clear_old_predictions"}
        /\ \E i \in 1..Len(flood_predictions) :
                flood_predictions[i].timestamp.kind = "naive") =>
            /\ ~ret'.raised
            /\ call'.op = "get_latest_predictions" =>
                    FeatureFields(ret'.value.features)
                        = RecordFields(NotBefore(flood_predictions, now - call'.minutes))
            /\ call'.op = "clear_old_predictions" =>
                    flood_predictions'
                        = NotBefore(flood_predictions, now - 60 * call'.hours)]_vars

\* C15 as claimed: evict(hours) removes exactly the stored predictions whose
\* timestamp is earlier than now - hours, returns how many it removed, and
\* leaves every other prediction in the store with its fields unchanged.
C15_EvictRemovesOld ==
    [][call'.op = "clear_old_predictions" =>
            /\ ~ret'.raised
            /\ flood_predictions' = NotBefore(flood_predictions, now - 60 * call'.hours)
            /\ ret'.value = Len(flood_predictions) - Len(flood_predictions')]_vars

\* C16: a store of k features that succeeds returns k and appends exactly k
\* records after the records already stored, which stay as they were, also
\* when a feature equals a record already stored; for k = 0 (an empty or a
\* missing features list) it returns 0, raises nothing and changes nothing.
C16_StoreAppendsAll ==
    [][call'.op = "store_predictions" =>
            LET k == Len(Get(call'.geojson, "features", <<>>))
            IN  /\ k = 0 => ~ret'.raised /\ flood_predictions' = flood_predictions
                /\ ~ret'.raised =>
                        /\ ret'.value = k
                        /\ Len(flood_predictions') = Len(flood_predictions) + k
                        /\ SubSeq(flood_predictions', 1, Len(flood_predictions))
                                = flood_predictions]_vars

\* C16 witness: a store of one feature returned 1 and left a second record
\* identical to the one already stored
C16_Witness ==
    /\ call.op = "store_predictions"
    /\ "features" \in DOMAIN call.geojson
    /\ Len(call.geojson.features) = 1
    /\ ~ret.raised
    /\ ret.value = 1
    /\ Len(flood_predictions) = 2
    /\ flood_predictions[1] = flood_predictions[2]

\* C17: when every stored prediction is valid, its timestamp carrying an
\* offset, and inside the window, latest(window) returns as many predictions
\* as were stored, each with the geometry, submergence_ratio, velocity and
\* timestamp stored.
C17_RoundTrip ==
    (/\ call.op = "get_latest_predictions"
     /\ \A i \in 1..Len(flood_predictions) :
            /\ flood_predictions[i].timestamp.kind = "aware"
            /\ flood_predictions[i].timestamp.t >= now - call.minutes) =>
        /\ ~ret.raised
        /\ Len(ret.value.features) = Len(flood_predictions)
        /\ FeatureFields(ret.value.features) = RecordFields(flood_predictions)

\* C17 witness: two features stored at 0, one of them with a velocity, came
\* back from a latest(90) called at 60
C17_Witness ==
    /\ call.op = "get_latest_predictions"
    /\ call.minutes = 90
    /\ now = 60
    /\ Len(flood_predictions) = 2
    /\ flood_predictions[2].velocity = 5
    /\ \A i \in 1..2 : flood_predictions[i].timestamp = Aware(0)
    /\ ~ret.raised
    /\ Len(ret.value.features) = 2

-----------------------------------------------------------------------------
(* Routes clear of every active polygon *)

\* the active predictions whose polygon shares a point with the line from the
\* first to the last waypoint of the route
RouteCrossers(route, minutes) ==
    {j \in ActiveNow(minutes) :
        /\ flood_predictions[j].geometry.lo <= route[Len(route)]
        /\ route[1] <= flood_predictions[j].geometry.hi}

\* C20: a request the path-finder answered with a route that crosses no
\* active flood polygon (or when no prediction is active at all) gets
\* max_submergence_ratio 0, exposure_length 0, predicted_arrival_risk 0,
\* status ok, risk level low, and the path-finder's route unchanged.
C20_ClearRouteIsOk ==
    (/\ Routed
     /\ call.osrm_result.status = "ok"
     /\ ~ret.raised
     /\ RouteCrossers(call.osrm_result.route, call.args.minutes) = {}) =>
        ret.response = [status |-> "ok", start |-> call.args.start,
                        goal |-> call.args.goal, route |-> call.osrm_result.route,
                        risk_level |-> "low", max_submergence_ratio |-> 0,
                        exposure_length |-> 0, predicted_arrival_risk |-> 0]

\* C20 witness: a route over [0, 1] was scored while a polygon over [2, 3]
\* of ratio 0.85 was active
C20_Witness ==
    /\ Routed
    /\ call.osrm_result.status = "ok"
    /\ call.osrm_result.route = <<0, 1>>
    /\ ActiveNow(call.args.minutes) # {}
    /\ \A j \in ActiveNow(call.args.minutes) :
            /\ flood_predictions[j].geometry = Polygon(2, 3)
            /\ flood_predictions[j].submergence_ratio = 85000
    /\ ~ret.raised
    /\ ret.response.status = "ok"

-----------------------------------------------------------------------------
(* Route scoring on what the store accepts and the path-finder may answer:  *)
(* ratios outside [0, 1], overlapping polygons, a polygon stored twice, and *)
(* routes of no, one or two coincident waypoints.                           *)

ScoreFeatures ==
    {Feature(Polygon(0, 1), 30000),
     Feature(Polygon(0, 2), 50000),
     Feature(Polygon(0, 1), -20000),
     Feature(Polygon(0, 3), 150000),
     Feature(Polygon(2, 3), 85000)}

ScoreBatches ==
    {[features |-> <<f>>] : f \in ScoreFeatures}
    \cup {[features |-> <<Feature(Polygon(0, 1), 30000), Feature(Polygon(0, 1), 30000)>>]}

ScoreOsrmResults ==
    {[status |-> "error", message |-> "No route found", route |-> <<>>]}
    \cup {[status |-> "ok", route |-> r] :
            r \in {<<0, 1>>, <<0, 2, 3>>, <<>>, <<1>>, <<1, 1>>}}

NextScore ==
    \/ Tick
    \/ \E geojson \in ScoreBatches : StorePredictions(geojson)
    \/ \E args \in RouteArgs, osrm_result \in ScoreOsrmResults :
            HandleRouteRequest(args, osrm_result)

SpecScore == Init /\ [][NextScore]_vars

\* the last call was a request the path-finder answered with a line: status
\* ok and two waypoints or more
Scored ==
    /\ Routed
    /\ call.osrm_result.status = "ok"
    /\ Len(call.osrm_result.route) >= 2
    /\ ~ret.raised

\* the length in degrees of the route of the last call
RouteLength == call.osrm_result.route[Len(call.osrm_result.route)] - call.osrm_result.route[1]

\* C21: predicted_arrival_risk is 0.6 * max_submergence + 0.4 *
\* exposure_fraction clamped to [0, 1] (and rounded to 4 decimals): never below
\* 0, never above 1, whatever ratios the store accepted.
C21_ArrivalRiskClamped ==
    Scored =>
        LET v == ret.response.predicted_arrival_risk
            M == FullPrecisionMax(call.osrm_result.route, call.args.minutes)
            E == ret.response.exposure_length \div METRES_PER_DEGREE
            num == IF RouteLength > 0 THEN 6 * M * RouteLength + 4 * E * Scale ELSE 6 * M
            den == IF RouteLength > 0 THEN 10 * RouteLength ELSE 10
        IN  /\ 0 <= v /\ v <= Scale
            /\ IF num >= Scale * den THEN v = Scale
               ELSE /\ v * den - num <= 5 * den
                    /\ num - v * den <= 5 * den

\* C21 witness: a polygon of ratio 1.5 over the whole route, where the blend
\* is above 1 and the returned risk is 1.0
C21_Witness ==
    /\ Scored
    /\ FullPrecisionMax(call.osrm_result.route, call.args.minutes) = 150000
    /\ ret.response.predicted_arrival_risk = Scale

\* C22 as claimed: exposure_length never exceeds the length of the route (so
\* exposure_fraction never exceeds 1), also with overlapping polygons and
\* with a polygon stored more than once.
C22_ExposureWithinRoute ==
    Scored => ret.response.exposure_length <= RouteLength * METRES_PER_DEGREE

\* C27 as claimed: a response of status ok or rerouted carries a route of two
\* waypoints or more, and an empty route comes only with status blocked,
\* whatever the path-finder client returned.
C27_RouteUnlessBlocked ==
    (Routed /\ ~ret.raised) =>
        /\ ret.response.status \in {"ok", "rerouted"} =>
                Len(ret.response.route) >= 2
        /\ ret.response.route = <<>> => ret.response.status = "blocked"

-----------------------------------------------------------------------------
(* Requests interleaved with stores in either order, with road-risk cycles  *)
(* and with other requests.  A caller may keep the response it just got,    *)
(* with the inputs it was computed from, to compare later responses with.   *)

\* features that carry their own timestamp, so that the same predictions can
\* be stored again, in another order, after an eviction
PureBatches ==
    {[features |-> <<TimedFeature(Polygon(0, 1), 30000, Aware(0))>>],
     [features |-> <<TimedFeature(Polygon(0, 2), 85000, Aware(0))>>]}

PureArgs == {[start |-> 0, goal |-> 3, minutes |-> 90]}

PureUpdateArgs == {[minutes |-> 90, road_segments |-> <<Road>>]}

PureOsrmResults ==
    {[status |-> "error", message |-> "No route found", route |-> <<>>],
     [status |-> "ok", route |-> <<0, 1>>],
     [status |-> "ok", route |-> <<0, 2, 3>>]}

\* the features a request at time t reads, as a collection without order
Snapshot(list, t, minutes) ==
    LET fs == get_latest_predictions(list, t, minutes).features
    IN  [f \in {fs[i] : i \in DOMAIN fs} |->
            Cardinality({i \in DOMAIN fs : fs[i] = f})]

\* the caller keeps the response of the request that has just returned
KeepResponse ==
    /\ Routed
    /\ ~ret.raised
    /\ thr' = [args |-> call.args,
               osrm_result |-> call.osrm_result,
               snapshot |-> Snapshot(flood_predictions, now, call.args.minutes),
               returned |->
                    get_latest_predictions(flood_predictions, now, call.args.minutes).features,
               response |-> ret.response]
    /\ thr' # thr
    /\ UNCHANGED <<now, flood_predictions, road_risks, call, ret>>

NextPure ==
    \/ Tick
    \/ \E geojson \in PureBatches : StorePredictions(geojson)
    \/ ClearOldPredictions(0)
    \/ \E args \in PureUpdateArgs : UpdateRoadRisks(args)
    \/ \E args \in PureArgs, osrm_result \in PureOsrmResults :
            HandleRouteRequest(args, osrm_result)
    \/ KeepResponse

SpecPure == Init /\ [][NextPure]_vars

\* the request that has just returned had the inputs of the kept one: the
\* same arguments, the same path-finder result, the same stored features
SameInputsAsKept ==
    /\ Routed
    /\ ~ret.raised
    /\ DOMAIN thr # {}
    /\ thr.args = call.args
    /\ thr.osrm_result = call.osrm_result
    /\ thr.snapshot = Snapshot(flood_predictions, now, call.args.minutes)

-----------------------------------------------------------------------------
(* osrm_client.py and lambda_handler.py.  A string is a sequence of         *)
(* one-character strings.  A waypoint is its position along the line, as in *)
(* route scoring, so the exchange of longitude and latitude is not visible. *)

\* an exception of the named class leaves the call
Raise(exc) == [raised |-> TRUE, exc |-> exc]

Return(value) == [raised |-> FALSE, value |-> value]

error_result(message) == [status |-> "error", message |-> message, route |-> <<>>]

\* OSRMClient.get_route: exchange is what urlopen and the read of the body
\* did.  URLError and OSError (a timeout is one) are caught; the ValueError
\* of json.loads on a body that is not JSON is not, nor is the KeyError of a
\* route without geometry.
get_route(start, goal, exchange) ==
    IF exchange.kind \in {"timeout", "url_error"}
    THEN Return(error_result("OSRM unavailable"))
    ELSE IF exchange.kind = "not_json" THEN Raise("ValueError")
    ELSE LET data == exchange.data
         IN  IF Get(data, "code", "") # "Ok" \/ Get(data, "routes", <<>>) = <<>>
             THEN Return(error_result(Get(data, "message", "No route found")))
             ELSE LET route == data.routes[1]
                  IN  IF "geometry" \notin DOMAIN route
                      THEN Raise("KeyError")
                      ELSE IF "coordinates" \notin DOMAIN route.geometry
                      THEN Raise("KeyError")
                      ELSE Return([status |-> "ok",
                                   route |-> route.geometry.coordinates])

\* MockOSRMClient.get_route: eleven waypoints on the straight line from start
\* to goal (the 0.002 degree curve is below the resolution of the positions)
NUM_POINTS == 10

mock_get_route(start, goal) ==
    Return([status |-> "ok",
            route |-> [i \in 1..(NUM_POINTS + 1) |->
                        start[2] + ((i - 1) * (goal[2] - start[2])) \div NUM_POINTS]])

Digits == <<"0", "1", "2", "3", "4", "5", "6", "7", "8", "9">>

IsDigit(c) == \E d \in DOMAIN Digits : Digits[d] = c

DigitValue(c) == (CHOOSE d \in DOMAIN Digits : Digits[d] = c) - 1

\* str.strip(): without the blanks at both ends
strip(value) ==
    LET inked == {i \in DOMAIN value : value[i] # " "}
    IN  IF inked = {} THEN <<>>
        ELSE SubSeq(value, CHOOSE i \in inked : \A j \in inked : i <= j,
                           CHOOSE i \in inked : \A j \in inked : j <= i)

\* str.split(","): the parts between the commas, empty parts included
RECURSIVE split_from(_, _, _)
split_from(value, i, part) ==
    IF i > Len(value) THEN <<part>>
    ELSE IF value[i] = "," THEN <<part>> \o split_from(value, i + 1, <<>>)
    ELSE split_from(value, i + 1, Append(part, value[i]))

split(value) == split_from(value, 1, <<>>)

\* float(): of the strings float() takes, an optional sign and decimal digits,
\* blanks allowed around; anything else raises ValueError
float_digits(text) ==
    LET t == strip(text)
    IN  IF t # <<>> /\ t[1] = "-" THEN Tail(t) ELSE t

float_raises(text) ==
    \/ float_digits(text) = <<>>
    \/ \E i \in DOMAIN float_digits(text) : ~IsDigit(float_digits(text)[i])

RECURSIVE digits_value(_, _)
digits_value(ds, acc) ==
    IF ds = <<>> THEN acc
    ELSE digits_value(Tail(ds), 10 * acc + DigitValue(ds[1]))

float(text) ==
    IF strip(text)[1] = "-" THEN 0 - digits_value(float_digits(text), 0)
    ELSE digits_value(float_digits(text), 0)

\* a slip: a coordinate string of more than two parts accepted
parse_coord_lenient(value) ==
    LET parts == split(strip(value))
    IN  IF Len(parts) < 2 THEN Raise("ValueError")
        ELSE IF float_raises(parts[1]) \/ float_raises(parts[2])
        THEN Raise("ValueError")
        ELSE Return(<<float(parts[1]), float(parts[2])>>)

\* _parse_coord
parse_coord(value) ==
    LET parts == split(strip(value))
    IN  IF Len(parts) # 2 THEN Raise("ValueError")
        ELSE IF float_raises(parts[1]) \/ float_raises(parts[2])
        THEN Raise("ValueError")
        ELSE Return(<<float(parts[1]), float(parts[2])>>)

\* Python's None and {}
None == [none |-> TRUE]

EmptyDict == [key \in {} |-> <<>>]

envelope(statusCode, body, store_read, osrm_called) ==
    [statusCode |-> statusCode, body |-> body,
     store_read |-> store_read, osrm_called |-> osrm_called]

bad_request(message, store_read, osrm_called) ==
    envelope(400, [status |-> "error", message |-> message], store_read, osrm_called)

server_error(store_read, osrm_called) ==
    envelope(500, [status |-> "error", message |-> "Internal server error"],
             store_read, osrm_called)

PREDICTION_WINDOW_MINUTES == 30

\* handle_route_request as handler calls it: the store read first, then the
\* client get_osrm_client chose; an exception of either leaves the call
routed(list, t, start, goal, exchange, OSRM_MOCK) ==
    LET args == [start |-> start, goal |-> goal, minutes |-> PREDICTION_WINDOW_MINUTES]
        predictions == get_latest_predictions(list, t, args.minutes)
        got == IF OSRM_MOCK = "1" THEN mock_get_route(start, goal)
               ELSE get_route(start, goal, exchange)
    IN  IF predictions.raised
        THEN [raised |-> TRUE, exc |-> "TypeError", osrm_called |-> FALSE]
        ELSE IF got.raised
        THEN [raised |-> TRUE, exc |-> got.exc, osrm_called |-> TRUE]
        ELSE [raised |-> FALSE, osrm_called |-> TRUE,
              value |-> handle_route_request(list, t, args, got.value).response]

\* handler: the envelope returned, with whether the store was read and the
\* path-finder called on the way
handler(list, t, event, exchange, OSRM_MOCK) ==
    LET given == Get(event, "queryStringParameters", None)
        params == IF given = None THEN EmptyDict ELSE given
        raw_start == Get(params, "start", <<>>)
        raw_goal == Get(params, "goal", <<>>)
        start == parse_coord(raw_start)
        goal == parse_coord(raw_goal)
        result == routed(list, t, start.value, goal.value, exchange, OSRM_MOCK)
    IN  IF raw_start = <<>> \/ raw_goal = <<>>
        THEN bad_request("Missing required query parameters: start, goal", FALSE, FALSE)
        ELSE IF start.raised \/ goal.raised
        THEN bad_request("Invalid parameters", FALSE, FALSE)
        ELSE IF ~result.raised
        THEN envelope(200, result.value, TRUE, TRUE)
        ELSE IF result.exc = "ValueError"
        THEN bad_request("Invalid parameters", TRUE, result.osrm_called)
        ELSE server_error(TRUE, result.osrm_called)

\* Query strings: absent, empty, blank, not two parts, not numbers, and
\* well-formed with and without blanks
StartStrings ==
    {<<>>, <<" ">>, <<"x">>, <<"1">>, <<",">>,
     <<"1", ",", "2", ",", "3">>, <<"1", ",", "x">>,
     <<"0", ",", "0">>, <<" ", "0", ",", " ", "0", " ">>}

GoalStrings == {<<>>, <<"0", ";", "3", "0">>, <<"0", ",", "3", "0">>}

Events ==
    {EmptyDict, [queryStringParameters |-> None],
     [queryStringParameters |-> EmptyDict]}
    \cup {[queryStringParameters |-> [start |-> <<"0", ",", "0">>]],
          [queryStringParameters |-> [goal |-> <<"0", ",", "3", "0">>]]}
    \cup {[queryStringParameters |-> [start |-> s, goal |-> <<"0", ",", "3", "0">>]] :
            s \in StartStrings}
    \cup {[queryStringParameters |-> [start |-> <<"0", ",", "0">>, goal |-> g]] :
            g \in GoalStrings}

\* What the exchange with the OSRM backend can come to
Exchanges ==
    {[kind |-> "timeout"], [kind |-> "url_error"], [kind |-> "not_json"]}
    \cup {[kind |-> "json", data |-> d] :
            d \in {EmptyDict,
                   [code |-> "NoRoute", message |-> "Impossible route"],
                   [code |-> "Ok"],
                   [code |-> "Ok", routes |-> <<>>],
                   [code |-> "Ok", routes |-> <<[distance |-> 1]>>],
                   [code |-> "Ok", routes |-> <<[geometry |-> [coordinates |-> <<>>]]>>],
                   [code |-> "Ok",
                    routes |-> <<[geometry |-> [coordinates |-> <<0, 30>>]]>>]}}

HandlerBatches ==
    {[features |-> <<f>>] :
        f \in {Feature(Polygon(0, 10), 85000),
               TimedFeature(Polygon(0, 10), 30000, Naive(0))}}

\* the environment's OSRM_MOCK with the exchange the real client would have;
\* the mock client has none
Backends ==
    {<<"0", exchange>> : exchange \in Exchanges} \cup {<<"1", [kind |-> "timeout"]>>}

Handler(event, exchange, OSRM_MOCK) ==
    /\ call' = [op |-> "handler", event |-> event, exchange |-> exchange,
                OSRM_MOCK |-> OSRM_MOCK]
    /\ ret' = Return(handler(flood_predictions, now, event, exchange, OSRM_MOCK))
    /\ UNCHANGED <<now, flood_predictions, road_risks, thr>>

GetRoute(start, goal, exchange) ==
    /\ call' = [op |-> "get_route", start |-> start, goal |-> goal,
                exchange |-> exchange]
    /\ ret' = get_route(start, goal, exchange)
    /\ UNCHANGED <<now, flood_predictions, road_risks, thr>>

NextHandler ==
    \/ Tick
    \/ \E geojson \in HandlerBatches : StorePredictions(geojson)
    \/ \E event \in Events, backend \in Backends :
            Handler(event, backend[2], backend[1])
    \/ \E exchange \in Exchanges : GetRoute(<<0, 0>>, <<0, 30>>, exchange)

SpecHandler == Init /\ [][NextHandler]_vars

Handled == call.op = "handler"

\* the query of the last handler call
Query == Get(call.event, "queryStringParameters", None)

RawOf(key) == IF Query = None THEN <<>> ELSE Get(Query, key, <<>>)

\* a coordinate string is well formed: two numbers separated by one comma
WellFormedCoord(value) ==
    \E a, b \in {<<"0">>, <<"3", "0">>, <<" ", "0">>, <<" ", "0", " ">>} :
        value = a \o <<",">> \o b

\* C24: a query whose start or goal is missing, empty or not parseable as
\* "lat,lon" is answered with the 400 envelope, and neither the store is read
\* nor the path-finder called.
C24_BadQueryIs400 ==
    (Handled /\ ~(WellFormedCoord(RawOf("start")) /\ WellFormedCoord(RawOf("goal")))) =>
        /\ ret.value.statusCode = 400
        /\ ret.value.body.status = "error"
        /\ ~ret.value.store_read
        /\ ~ret.value.osrm_called

\* C24 witness: both parameters present and not empty, the start not
\* parseable, over a store that holds a prediction
C24_Witness ==
    /\ Handled
    /\ RawOf("start") = <<"1", ",", "2", ",", "3">>
    /\ WellFormedCoord(RawOf("goal"))
    /\ flood_predictions # <<>>
    /\ ret.value.statusCode = 400

\* C25 as claimed: a well-formed query is never answered with 400, whatever
\* the store holds and however the path-finder or its response fails; a
\* failure of the path-finder gives 200 with the blocked response.
C25_WellFormedNever400 ==
    (Handled /\ WellFormedCoord(RawOf("start")) /\ WellFormedCoord(RawOf("goal"))) =>
        ret.value.statusCode # 400

\* C26 as claimed: get_route returns a result of status "ok" or "error" and
\* never raises; a timeout, a connection failure, an unusable body, a code
\* other than Ok and an empty list of routes each give status "error" with an
\* empty route.
C26_GetRouteNeverRaises ==
    call.op = "get_route" =>
        /\ ~ret.raised
        /\ ret.value.status \in {"ok", "error"}
        /\ (call.exchange.kind # "json"
            \/ Get(call.exchange.data, "code", "") # "Ok"
            \/ Get(call.exchange.data, "routes", <<>>) = <<>>) =>
                (ret.value.status = "error" /\ ret.value.route = <<>>)

-----------------------------------------------------------------------------
(* store_predictions in one thread and clear_old_predictions in another on  *)
(* the one MockConnection.  conn.flood_predictions.append({..}) loads the   *)
(* list, then builds the record (calls of .get, datetime.now, isoformat),   *)
(* then appends to the list it loaded; clear_old_predictions iterates the   *)
(* list, then binds conn.flood_predictions to the list of the kept records. *)
(* flood_predictions is the list conn.flood_predictions is bound to.        *)

\* batches stamped by the store, and one of a feature an hour old
EvictBatches ==
    {[features |-> fs] :
        fs \in {<<Feature(Polygon(0, 1), 30000)>>,
                <<Feature(Polygon(0, 1), 30000), Feature(Polygon(2, 3), 85000)>>,
                <<TimedFeature(Polygon(0, 1), 50000, Aware(-60))>>}}

IdleEvictor == [pc |-> "idle", i |-> 1, cutoff |-> 0, kept |-> <<>>]

InitConcEvict ==
    /\ now = 0
    /\ flood_predictions = <<>>
    /\ road_risks = <<>>
    /\ call = [op |-> "none"]
    /\ ret = [raised |-> FALSE]
    /\ thr = [storer |-> IdleStorer, evictor |-> IdleEvictor]

\* conn.flood_predictions is loaded for the append of this iteration
StoreLoadList ==
    LET me == thr.storer
    IN  /\ me.pc = "loop"
        /\ thr' = [thr EXCEPT !.storer =
                    [pc |-> "append", features |-> me.features, i |-> me.i,
                     first |-> me.first, bound |-> TRUE]]
        /\ UNCHANGED <<now, flood_predictions, road_risks, call, ret>>

\* the record is built and appended to the list that was loaded, which is
\* the list of the connection only if it is still bound to it
StoreAppendLoaded ==
    LET me == thr.storer
        after == [pc |-> IF me.i = Len(me.features) THEN "done" ELSE "loop",
                  features |-> me.features, i |-> me.i + 1, first |-> me.first]
    IN  /\ me.pc = "append"
        /\ IF feature_ok(me.features[me.i])
           THEN /\ flood_predictions' =
                        IF me.bound
                        THEN Append(flood_predictions, stored_record(me.features[me.i], now))
                        ELSE flood_predictions
                /\ thr' = [thr EXCEPT !.storer = after]
           ELSE /\ thr' = [thr EXCEPT !.storer = [after EXCEPT !.pc = "raised"]]
                /\ UNCHANGED flood_predictions
        /\ UNCHANGED <<now, road_risks, call, ret>>

\* clear_old_predictions up to its comprehension
EvictBegin(hours) ==
    /\ thr.evictor.pc \in {"idle", "done", "raised"}
    /\ thr' = [thr EXCEPT !.evictor =
                [pc |-> "loop", i |-> 1, cutoff |-> now - 60 * hours, kept |-> <<>>]]
    /\ UNCHANGED <<now, flood_predictions, road_risks, call, ret>>

\* one iteration of the comprehension over the list as it is now
EvictStep ==
    LET me == thr.evictor
        p == flood_predictions[me.i]
    IN  /\ me.pc = "loop"
        /\ me.i <= Len(flood_predictions)
        /\ thr' = IF ts_raises(p.timestamp)
                  THEN [thr EXCEPT !.evictor.pc = "raised"]
                  ELSE IF parse_ts(p.timestamp, now) >= me.cutoff
                  THEN [thr EXCEPT !.evictor.i = me.i + 1,
                                   !.evictor.kept = Append(me.kept, p)]
                  ELSE [thr EXCEPT !.evictor.i = me.i + 1]
        /\ UNCHANGED <<now, flood_predictions, road_risks, call, ret>>

\* the iterator is exhausted: the comprehension has its list
EvictExhausted ==
    /\ thr.evictor.pc = "loop"
    /\ thr.evictor.i > Len(flood_predictions)
    /\ thr' = [thr EXCEPT !.evictor.pc = "assign"]
    /\ UNCHANGED <<now, flood_predictions, road_risks, call, ret>>

\* conn.flood_predictions = [..]: a list loaded before is bound no longer
EvictAssign ==
    /\ thr.evictor.pc = "assign"
    /\ flood_predictions' = thr.evictor.kept
    /\ thr' = IF thr.storer.pc = "append"
              THEN [thr EXCEPT !.evictor.pc = "done", !.storer.bound = FALSE]
              ELSE [thr EXCEPT !.evictor.pc = "done"]
    /\ UNCHANGED <<now, road_risks, call, ret>>

NextConcEvict ==
    \/ \E geojson \in EvictBatches : StoreBegin(geojson)
    \/ StoreLoadList
    \/ StoreAppendLoaded
    \/ \E hours \in Ages : EvictBegin(hours)
    \/ EvictStep
    \/ EvictExhausted
    \/ EvictAssign

SpecConcEvict == InitConcEvict /\ [][NextConcEvict]_vars

\* the records of the storer's batch that no eviction of these runs may
\* remove: those stamped now
FreshOfBatch ==
    {stored_record(thr.storer.features[k], now) : k \in DOMAIN thr.storer.features}
        \ {r \in {stored_record(thr.storer.features[k], now) :
                    k \in DOMAIN thr.storer.features} : r.timestamp # Aware(now)}

\* C28 as claimed: when a store of a batch with current timestamps and an
\* eviction overlap, no record is lost: once both have completed, every
\* feature of the batch is in the store and returned by a latest whose
\* window covers it.
C28_NoRecordLost ==
    (thr.storer.pc = "done" /\ thr.evictor.pc = "done") =>
        \A r \in FreshOfBatch :
            /\ \E j \in DOMAIN flood_predictions : flood_predictions[j] = r
            /\ \E j \in DOMAIN get_latest_predictions(flood_predictions, now, 30).features :
                    get_latest_predictions(flood_predictions, now, 30).features[j] =
                        latest_feature(r)

-----------------------------------------------------------------------------
(* Eviction against the window of get_latest_predictions, in SpecStore.     *)

\* C29: for every content of the store, every age h and every window w with
\* w minutes no longer than h hours, get_latest_predictions(w) returns right
\* after clear_old_predictions(h) what it returned right before: eviction
\* removes nothing a reader of such a window could see.
C29_EvictKeepsWindow ==
    [][call'.op = "clear_old_predictions" =>
            \A w \in Windows :
                w <= 60 * call'.hours =>
                    get_latest_predictions(flood_predictions', now', w) =
                        get_latest_predictions(flood_predictions, now, w)]_vars

\* C29 witness: an eviction of age one hour has removed a record and has left
\* one that the window of 30 minutes returns
C29_Witness ==
    /\ call.op = "clear_old_predictions"
    /\ call.hours = 1
    /\ ~ret.raised
    /\ ret.value > 0
    /\ get_latest_predictions(flood_predictions, now, 30).features # <<>>

\* C30 as claimed: every stored prediction is evicted once the clock has
\* advanced more than the age past the time it was stored, also when its
\* timestamp is malformed or absent: an eviction of age 0 that follows an
\* advance of the clock, and completes, leaves the store empty.
C30_OldAreEvicted ==
    [][(/\ call.op = "tick"
        /\ call'.op = "clear_old_predictions"
        /\ call'.hours = 0
        /\ ~ret'.raised) => flood_predictions' = <<>>]_vars

=============================================================================
